---- MODULE Spec2Model ----
(***************************************************************************)
(* File-Encryptor (src/src/main.rs): a password-based file encryption     *)
(* command line tool.  One process invocation runs encrypt_file or        *)
(* decrypt_file on a file system; the model follows one invocation after  *)
(* the other, statement group by statement group.                         *)
(*                                                                         *)
(* The cryptographic crates (pbkdf2, aes-gcm, bincode, rand) are not part  *)
(* of the repository.  They are modelled by small byte-level stand-ins     *)
(* that keep the shape the code relies on: pbkdf2 is a deterministic      *)
(* digest of (password, salt, rounds), AES-GCM is a stream cipher with a   *)
(* 16-byte tag that is a keyed, GHASH-like (XOR-linear) checksum of the    *)
(* ciphertext, bincode writes fixed-size arrays as their raw bytes.        *)
(***************************************************************************)
EXTENDS Integers, Sequences, FiniteSets, TLC

\* ------------------------------------------------------------ constants
KEY_LENGTH == 32
SALT_LENGTH == 16
PBKDF2_ITERATIONS == 100000
NONCE_LENGTH == 12
\* size of the tag Aes256Gcm appends to the ciphertext
TAG_LENGTH == 16

\* ------------------------------------------------------------ bounds
\* longest plaintext the initial file system holds
MaxLen == 5
\* number of distinct outputs of one OsRng.fill_bytes call
RngOutcomes == 2
\* number of process invocations followed
MaxRuns == 2

\* ------------------------------------------------------------ bytes
RECURSIVE XorBits(_, _, _)
XorBits(a, b, n) ==
    IF n = 0 THEN 0
    ELSE ((a + b) % 2) + 2 * XorBits(a \div 2, b \div 2, n - 1)

\* XOR of two 4-bit values, tabulated
XorNibble == [a \in 0..15 |-> [b \in 0..15 |-> XorBits(a, b, 4)]]

Xor8(a, b) == XorNibble[a % 16][b % 16] + 16 * XorNibble[a \div 16][b \div 16]

Pow2(b) == CASE b = 0 -> 1 [] b = 1 -> 2 [] b = 2 -> 4 [] b = 3 -> 8
             [] b = 4 -> 16 [] b = 5 -> 32 [] b = 6 -> 64 [] OTHER -> 128

FlipBit(byte, b) ==
    IF (byte \div Pow2(b)) % 2 = 1 THEN byte - Pow2(b) ELSE byte + Pow2(b)

\* polynomial digest of a byte string, one byte wide
Mix(h, b) == (h * 31 + b + 1) % 256

\* the bytes from position i on, mixed into h (four at a time while they last)
RECURSIVE DigestFrom(_, _, _)
DigestFrom(bytes, i, h) ==
    IF i > Len(bytes) THEN h
    ELSE IF i + 3 <= Len(bytes)
    THEN DigestFrom(bytes, i + 4,
                    Mix(Mix(Mix(Mix(h, bytes[i]), bytes[i + 1]), bytes[i + 2]),
                        bytes[i + 3]))
    ELSE DigestFrom(bytes, i + 1, Mix(h, bytes[i]))

Digest(bytes, h) == DigestFrom(bytes, 1, h)

\* ------------------------------------------------------------ inputs
Paths == {"a", "b"}

\* the text "hello", repeated
SampleByte(i) == <<104, 101, 108, 108, 111>>[((i - 1) % 5) + 1]

\* the empty file, a one-byte file and the longest file
PlainLengths == {0, 1, MaxLen}

Plaintexts == {[i \in 1..n |-> SampleByte(i)] : n \in PlainLengths}

\* the empty password and the password "p"
Passwords == {<< >>, <<112>>}

\* OsRng.fill_bytes: n bytes, one of RngOutcomes fillings
Fill(n, seed) == [i \in 1..n |-> (seed * 83 + i * seed) % 256]

RngSeeds == 1..RngOutcomes

\* ------------------------------------------------------------ results
Ok(v) == [ok |-> TRUE, val |-> v]
Err == [ok |-> FALSE, val |-> << >>]

\* ------------------------------------------------------------ pbkdf2
\* pbkdf2::<Hmac<Sha256>>(password, salt, rounds, out): deterministic,
\* fills all of out
pbkdf2(pw, salt, rounds, len) ==
    LET d == Digest(pw \o salt, rounds % 256)
    IN  [i \in 1..len |-> (d * (2 * i + 1) + i) % 256]

\* fault: the key derived from the salt alone
derive_key_salt_only(pw, salt) == pbkdf2(<< >>, salt, PBKDF2_ITERATIONS, KEY_LENGTH)

derive_key(pw, salt) == pbkdf2(pw, salt, PBKDF2_ITERATIONS, KEY_LENGTH)

\* ------------------------------------------------------------ rand
generate_salt(seed) == Fill(SALT_LENGTH, seed)

generate_nonce(seed) == Fill(NONCE_LENGTH, seed)

\* ------------------------------------------------------------ bincode
\* fault: the fields written in the other order
serializeSaltFirst(metadata) == metadata.salt \o metadata.nonce

\* fault: a variable-length integer encoding, two bytes for a value above 127
serializeVarint(metadata) ==
    LET raw == metadata.nonce \o metadata.salt
        wide == Cardinality({i \in 1..Len(raw) : raw[i] > 127})
    IN  raw \o [i \in 1..wide |-> 0]

\* a struct of two fixed-size byte arrays: the raw bytes, in field order
serialize(metadata) == metadata.nonce \o metadata.salt

deserialize(bytes) ==
    IF Len(bytes) < NONCE_LENGTH + SALT_LENGTH THEN Err
    ELSE Ok([nonce |-> SubSeq(bytes, 1, NONCE_LENGTH),
             salt  |-> SubSeq(bytes, NONCE_LENGTH + 1, NONCE_LENGTH + SALT_LENGTH)])

\* ------------------------------------------------------------ AES-256-GCM
KeyStream(key, nonce, i) ==
    (key[((i - 1) % KEY_LENGTH) + 1] + nonce[((i - 1) % NONCE_LENGTH) + 1] + i) % 256

Ctr(key, nonce, data) ==
    [i \in 1..Len(data) |-> Xor8(data[i], KeyStream(key, nonce, i))]

\* XOR of the bytes of ct at positions j, j + 16, j + 32, ...
RECURSIVE Lane(_, _)
Lane(ct, j) ==
    IF j > Len(ct) THEN 0 ELSE Xor8(ct[j], Lane(ct, j + TAG_LENGTH))

\* the key- and nonce-dependent mask of tag byte j
Pad(key, nonce, n, j) ==
    (key[j] + 2 * key[j + TAG_LENGTH] + nonce[((j - 1) % NONCE_LENGTH) + 1]
       + n + 5 * j) % 256

Tag(key, nonce, ct) ==
    [j \in 1..TAG_LENGTH |-> Xor8(Pad(key, nonce, Len(ct) % 256, j), Lane(ct, j))]

\* cipher.encrypt(nonce, data): ciphertext with the tag appended
encrypt(key, nonce, data) ==
    LET ct == Ctr(key, nonce, data)
    IN  Ok(ct \o Tag(key, nonce, ct))

\* fault: decryption that drops the tag without verifying it
decryptUnverified(key, nonce, ciphertext) ==
    IF Len(ciphertext) < TAG_LENGTH THEN Err
    ELSE Ok(Ctr(key, nonce, SubSeq(ciphertext, 1, Len(ciphertext) - TAG_LENGTH)))

\* cipher.decrypt(nonce, ciphertext): the plaintext, or an error when the
\* buffer is shorter than a tag or the tag does not verify
decrypt(key, nonce, ciphertext) ==
    IF Len(ciphertext) < TAG_LENGTH THEN Err
    ELSE LET n   == Len(ciphertext) - TAG_LENGTH
             ct  == SubSeq(ciphertext, 1, n)
             tag == SubSeq(ciphertext, n + 1, Len(ciphertext))
         IN  IF Tag(key, nonce, ct) = tag THEN Ok(Ctr(key, nonce, ct)) ELSE Err

\* ------------------------------------------------------------ state
VARIABLES
    fs,           \* path -> [exists, data, prov]: the file system; prov records
                  \* how the bytes came to be there (history, never read by the code)
    pc,           \* position of the running invocation
    cmd,          \* Commands::Encrypt or Commands::Decrypt
    input_path,
    output_path,
    password,
    local,        \* the local variables of encrypt_file / decrypt_file
    outcome,      \* how the invocation ended
    steps,        \* the pipeline steps the invocation has started, in order
    runs,         \* invocations started so far
    damaged       \* whether the environment has damaged a stored file

vars == <<fs, pc, cmd, input_path, output_path, password, local, outcome,
          steps, runs, damaged>>

NoFile == [exists |-> FALSE, data |-> << >>, prov |-> [kind |-> "none"]]

NoLocals == [unset |-> TRUE]

Init ==
    /\ \E p \in Plaintexts :
          fs = [f \in Paths |->
                  IF f = "a"
                  THEN [exists |-> TRUE, data |-> p, prov |-> [kind |-> "plain"]]
                  ELSE NoFile]
    /\ pc = "idle"
    /\ cmd = "none"
    /\ input_path = "a"
    /\ output_path = "a"
    /\ password = << >>
    /\ local = NoLocals
    /\ outcome = "none"
    /\ steps = << >>
    /\ runs = 0
    /\ damaged = FALSE

\* main: Cli::parse and the dispatch on the subcommand
Start ==
    /\ pc = "idle"
    /\ runs < MaxRuns
    /\ \E c \in {"encrypt", "decrypt"}, i \in Paths, o \in Paths, w \in Passwords :
          /\ cmd' = c
          /\ input_path' = i
          /\ output_path' = o
          /\ password' = w
          /\ pc' = IF c = "encrypt" THEN "enc_read" ELSE "dec_read"
    /\ runs' = runs + 1
    /\ local' = NoLocals
    /\ outcome' = "running"
    /\ steps' = << >>
    /\ UNCHANGED <<fs, damaged>>

\* an error propagated by `?` (or a panic) ends the invocation
Fail(kind) ==
    /\ pc' = "done"
    /\ outcome' = kind

\* read_file_bytes, from the invocation's point of view
ReadOk(path) == fs[path].exists

\* write_file_bytes: File::create then write_all; a create that fails
\* leaves the file system as it was
WriteFile(path, data, prov, created) ==
    IF created
    THEN /\ fs' = [fs EXCEPT ![path] = [exists |-> TRUE, data |-> data, prov |-> prov]]
         /\ outcome' = "ok"
    ELSE /\ fs' = fs
         /\ outcome' = "io_error"

\* ------------------------------------------------------------ encrypt_file
\* fault: the output file created before the input is read
EncReadCreatesFirst ==
    /\ pc = "enc_read"
    /\ steps' = steps \o <<"write", "read">>
    /\ fs' = [fs EXCEPT ![output_path] =
                [exists |-> TRUE, data |-> << >>, prov |-> [kind |-> "none"]]]
    /\ IF fs'[input_path].exists
       THEN /\ local' = [plain_text_bytes |-> fs'[input_path].data]
            /\ pc' = "enc_key"
            /\ UNCHANGED outcome
       ELSE /\ Fail("io_error")
            /\ UNCHANGED local
    /\ UNCHANGED <<cmd, input_path, output_path, password, runs, damaged>>

EncRead ==
    /\ pc = "enc_read"
    /\ steps' = Append(steps, "read")
    /\ IF ReadOk(input_path)
       THEN /\ local' = [plain_text_bytes |-> fs[input_path].data]
            /\ pc' = "enc_key"
            /\ UNCHANGED outcome
       ELSE /\ Fail("io_error")
            /\ UNCHANGED local
    /\ UNCHANGED <<fs, cmd, input_path, output_path, password, runs, damaged>>

EncDeriveKey ==
    /\ pc = "enc_key"
    /\ steps' = Append(steps, "kdf")
    /\ \E seed \in RngSeeds :
          LET salt == generate_salt(seed)
          IN  local' = [plain_text_bytes |-> local.plain_text_bytes,
                        salt |-> salt,
                        key  |-> derive_key(password, salt)]
    /\ pc' = "enc_seal"
    /\ UNCHANGED <<fs, cmd, input_path, output_path, password, outcome, runs,
                   damaged>>

\* fault: the header's nonce taken from the salt instead of the drawn nonce
EncMetadataNonceFromSalt(nonce, salt) ==
    [nonce |-> SubSeq(salt, 1, NONCE_LENGTH), salt |-> salt]

\* the header encrypt_file builds from the nonce and salt it drew
EncMetadata(nonce, salt) == [nonce |-> nonce, salt |-> salt]

\* the bytes encrypt_file hands to write_file_bytes
EncCombine(metadata_bytes, encrypted_data) == metadata_bytes \o encrypted_data

EncEncrypt ==
    /\ pc = "enc_seal"
    /\ steps' = Append(steps, "aead")
    /\ \E seed \in RngSeeds :
          LET nonce == generate_nonce(seed)
              metadata_bytes == serialize(EncMetadata(nonce, local.salt))
              sealed == encrypt(local.key, nonce, local.plain_text_bytes)
          IN  IF sealed.ok
              THEN /\ local' = [plain_text_bytes |-> local.plain_text_bytes,
                                salt |-> local.salt,
                                key |-> local.key,
                                nonce |-> nonce,
                                metadata_bytes |-> metadata_bytes,
                                encrypted_data |-> sealed.val,
                                full_encrypted_data |->
                                    EncCombine(metadata_bytes, sealed.val)]
                   /\ pc' = "enc_write"
                   /\ UNCHANGED outcome
              ELSE /\ Fail("aead_error")
                   /\ UNCHANGED local
    /\ UNCHANGED <<fs, cmd, input_path, output_path, password, runs, damaged>>

EncWrite ==
    /\ pc = "enc_write"
    /\ steps' = Append(steps, "write")
    /\ \E created \in BOOLEAN :
          WriteFile(output_path, local.full_encrypted_data,
                    [kind |-> "sealed", plain |-> local.plain_text_bytes,
                     password |-> password, nonce |-> local.nonce,
                     salt |-> local.salt],
                    created)
    /\ pc' = "done"
    /\ UNCHANGED <<cmd, input_path, output_path, password, local, runs, damaged>>

\* ------------------------------------------------------------ decrypt_file
DecRead ==
    /\ pc = "dec_read"
    /\ steps' = Append(steps, "read")
    /\ IF ReadOk(input_path)
       THEN /\ local' = [file_bytes |-> fs[input_path].data,
                         in_prov |-> fs[input_path].prov]
            /\ pc' = "dec_split"
            /\ UNCHANGED outcome
       ELSE /\ Fail("io_error")
            /\ UNCHANGED local
    /\ UNCHANGED <<fs, cmd, input_path, output_path, password, runs, damaged>>

\* fault: the header length taken from the wrong constant
MetadataLengthKey(nonce_seed, salt_seed) == KEY_LENGTH

\* the length of a serialized header with freshly drawn fields
MetadataLength(nonce_seed, salt_seed) ==
    Len(serialize([nonce |-> generate_nonce(nonce_seed),
                   salt  |-> generate_salt(salt_seed)]))

\* slice::split_at(mid) panics when mid > len
SplitPanics(bytes, mid) == mid > Len(bytes)

SplitHead(bytes, mid) == SubSeq(bytes, 1, mid)

SplitTail(bytes, mid) == SubSeq(bytes, mid + 1, Len(bytes))

DecSplit ==
    /\ pc = "dec_split"
    /\ \E nonce_seed \in RngSeeds, salt_seed \in RngSeeds :
          LET metadata_length == MetadataLength(nonce_seed, salt_seed)
              metadata_bytes  == SplitHead(local.file_bytes, metadata_length)
              encrypted_data  == SplitTail(local.file_bytes, metadata_length)
              metadata        == deserialize(metadata_bytes)
          IN  IF SplitPanics(local.file_bytes, metadata_length)
              THEN /\ Fail("panic")
                   /\ UNCHANGED local
              ELSE IF ~metadata.ok
              THEN /\ Fail("decode_error")
                   /\ UNCHANGED local
              ELSE /\ local' = [file_bytes |-> local.file_bytes,
                                in_prov |-> local.in_prov,
                                metadata_length |-> metadata_length,
                                metadata_bytes |-> metadata_bytes,
                                encrypted_data |-> encrypted_data,
                                metadata |-> metadata.val,
                                drawn_salt |-> generate_salt(salt_seed)]
                   /\ pc' = "dec_key"
                   /\ UNCHANGED outcome
    /\ UNCHANGED <<fs, cmd, input_path, output_path, password, steps, runs,
                   damaged>>

\* fault: the key derived from the salt drawn for measuring the header
DecKeySaltDrawn(metadata, drawn_salt) == drawn_salt

\* the salt decrypt_file derives the key from: the one stored in the header
DecKeySalt(metadata, drawn_salt) == metadata.salt

DecDeriveKey ==
    /\ pc = "dec_key"
    /\ steps' = Append(steps, "kdf")
    /\ local' = [file_bytes |-> local.file_bytes,
                 in_prov |-> local.in_prov,
                 metadata_length |-> local.metadata_length,
                 metadata_bytes |-> local.metadata_bytes,
                 encrypted_data |-> local.encrypted_data,
                 metadata |-> local.metadata,
                 drawn_salt |-> local.drawn_salt,
                 key |-> derive_key(password, DecKeySalt(local.metadata, local.drawn_salt))]
    /\ pc' = "dec_open"
    /\ UNCHANGED <<fs, cmd, input_path, output_path, password, outcome, runs,
                   damaged>>

\* fault: on an authentication failure the unauthenticated decryption is
\* written out as a best effort
DecDecryptBestEffort ==
    /\ pc = "dec_open"
    /\ steps' = Append(steps, "aead")
    /\ LET opened == decrypt(local.key, local.metadata.nonce, local.encrypted_data)
       IN  IF opened.ok
           THEN /\ local' = [file_bytes |-> local.file_bytes,
                             in_prov |-> local.in_prov,
                             metadata_length |-> local.metadata_length,
                             metadata_bytes |-> local.metadata_bytes,
                             encrypted_data |-> local.encrypted_data,
                             metadata |-> local.metadata,
                             drawn_salt |-> local.drawn_salt,
                             key |-> local.key,
                             decrypted_data |-> opened.val]
                /\ pc' = "dec_write"
                /\ UNCHANGED <<outcome, fs>>
           ELSE /\ Fail("aead_error")
                /\ fs' = [fs EXCEPT ![output_path] =
                            [exists |-> TRUE,
                             data |-> Ctr(local.key, local.metadata.nonce,
                                          local.encrypted_data),
                             prov |-> [kind |-> "opened"]]]
                /\ UNCHANGED local
    /\ UNCHANGED <<cmd, input_path, output_path, password, runs, damaged>>

DecDecrypt ==
    /\ pc = "dec_open"
    /\ steps' = Append(steps, "aead")
    /\ LET opened == decrypt(local.key, local.metadata.nonce, local.encrypted_data)
       IN  IF opened.ok
           THEN /\ local' = [file_bytes |-> local.file_bytes,
                             in_prov |-> local.in_prov,
                             metadata_length |-> local.metadata_length,
                             metadata_bytes |-> local.metadata_bytes,
                             encrypted_data |-> local.encrypted_data,
                             metadata |-> local.metadata,
                             drawn_salt |-> local.drawn_salt,
                             key |-> local.key,
                             decrypted_data |-> opened.val]
                /\ pc' = "dec_write"
                /\ UNCHANGED outcome
           ELSE /\ Fail("aead_error")
                /\ UNCHANGED local
    /\ UNCHANGED <<fs, cmd, input_path, output_path, password, runs, damaged>>

DecWrite ==
    /\ pc = "dec_write"
    /\ steps' = Append(steps, "write")
    /\ \E created \in BOOLEAN :
          WriteFile(output_path, local.decrypted_data, [kind |-> "opened"], created)
    /\ pc' = "done"
    /\ UNCHANGED <<cmd, input_path, output_path, password, local, runs, damaged>>

\* ------------------------------------------------------------ process exit
Exit ==
    /\ pc = "done"
    /\ pc' = "idle"
    /\ cmd' = "none"
    /\ input_path' = "a"
    /\ output_path' = "a"
    /\ password' = << >>
    /\ local' = NoLocals
    /\ outcome' = "none"
    /\ steps' = << >>
    /\ UNCHANGED <<fs, runs, damaged>>

\* ------------------------------------------------------------ environment
\* The file a decrypt_file invocation is about to read was damaged in
\* storage: one bit of it flipped, or its tail was lost.  This happens at
\* most once.
FlipFileBit ==
    /\ pc = "dec_read"
    /\ ~damaged
    /\ fs[input_path].exists
    /\ \E i \in 1..Len(fs[input_path].data), b \in 0..7 :
          fs' = [fs EXCEPT ![input_path] =
                   [exists |-> TRUE,
                    data |-> [fs[input_path].data EXCEPT ![i] = FlipBit(@, b)],
                    prov |-> [kind |-> "flipped", of |-> fs[input_path].prov,
                              at |-> i, bit |-> b]]]
    /\ damaged' = TRUE
    /\ UNCHANGED <<pc, cmd, input_path, output_path, password, local, outcome,
                   steps, runs>>

TruncateFile ==
    /\ pc = "dec_read"
    /\ ~damaged
    /\ fs[input_path].exists
    /\ \E k \in 0..(Len(fs[input_path].data) - 1) :
          fs' = [fs EXCEPT ![input_path] =
                   [exists |-> TRUE,
                    data |-> SubSeq(fs[input_path].data, 1, k),
                    prov |-> [kind |-> "truncated", of |-> fs[input_path].prov]]]
    /\ damaged' = TRUE
    /\ UNCHANGED <<pc, cmd, input_path, output_path, password, local, outcome,
                   steps, runs>>

\* ------------------------------------------------------------ specification
Next ==
    \/ Start
    \/ EncRead
    \/ EncDeriveKey
    \/ EncEncrypt
    \/ EncWrite
    \/ DecRead
    \/ DecSplit
    \/ DecDeriveKey
    \/ DecDecrypt
    \/ DecWrite
    \/ Exit
    \/ FlipFileBit
    \/ TruncateFile

Spec == Init /\ [][Next]_vars

\* ------------------------------------------------------------ vocabulary
HeaderLength == NONCE_LENGTH + SALT_LENGTH

Pipeline == <<"read", "kdf", "aead", "write">>

IsPrefix(s, t) == Len(s) <= Len(t) /\ s = SubSeq(t, 1, Len(s))

\* a decrypt_file invocation that has read its input
DecHasInput == cmd = "decrypt" /\ "in_prov" \in DOMAIN local

DecFinished == pc = "done" /\ DecHasInput

\* the input of the running decrypt_file is a file encrypt_file wrote,
\* untouched since
InputSealed == DecHasInput /\ local.in_prov.kind = "sealed"

\* the input is such a file with one bit flipped at or after offset 28
InputCiphertextFlipped ==
    /\ DecHasInput
    /\ local.in_prov.kind = "flipped"
    /\ local.in_prov.of.kind = "sealed"
    /\ local.in_prov.at > HeaderLength

\* the invocation ended in an error before write_file_bytes was called
NothingWritten == "write" \notin {steps[k] : k \in 1..Len(steps)}

\* ------------------------------------------------------------ C1
\* C1: decrypt_file with password W on a file encrypt_file wrote from P
\* with W runs its whole pipeline without error, hands exactly P to
\* write_file_bytes, and when the output file can be created the invocation
\* succeeds and the output holds exactly P (the zero-length P included).
C1_RoundTrip ==
    (DecFinished /\ InputSealed /\ local.in_prov.password = password)
    => /\ steps = Pipeline
       /\ local.decrypted_data = local.in_prov.plain
       /\ outcome \in {"ok", "io_error"}
       /\ outcome = "ok" => fs[output_path].data = local.in_prov.plain

C1_Witness ==
    /\ DecFinished /\ InputSealed /\ local.in_prov.password = password
    /\ outcome = "ok"
    /\ Len(local.in_prov.plain) = MaxLen
    /\ fs[output_path].data = local.in_prov.plain

\* the zero-length plaintext under the empty password comes back too
C1_WitnessEmpty ==
    /\ DecFinished /\ InputSealed /\ local.in_prov.password = password
    /\ password = << >>
    /\ outcome = "ok"
    /\ local.in_prov.plain = << >>
    /\ fs[output_path].data = << >>

\* ------------------------------------------------------------ C2
\* C2: decrypt_file on an input shorter than the header (0 to 27 bytes)
\* ends with a decoding error value and never panics.
C2_TruncationRejected ==
    (DecFinished /\ Len(local.file_bytes) < HeaderLength)
    => outcome = "decode_error"

\* what the code does instead: split_at panics on every such input
C2_ShortInputPanics ==
    (DecFinished /\ Len(local.file_bytes) < HeaderLength)
    => outcome = "panic" /\ steps = <<"read">>

C2_Witness ==
    /\ DecFinished
    /\ Len(local.file_bytes) = HeaderLength - 1
    /\ outcome = "panic"

\* ------------------------------------------------------------ C3
\* C3: decrypt_file with W on a file encrypt_file wrote with W, one bit of
\* which was flipped at offset 28 or beyond (tag included), ends with the
\* AEAD error and never calls write_file_bytes.
C3_TamperDetected ==
    (DecFinished /\ InputCiphertextFlipped /\ local.in_prov.of.password = password)
    => /\ outcome = "aead_error"
       /\ steps = <<"read", "kdf", "aead">>
       /\ "decrypted_data" \notin DOMAIN local

\* a flipped bit of the tag's last byte
C3_Witness ==
    /\ DecFinished /\ InputCiphertextFlipped
    /\ local.in_prov.of.password = password
    /\ local.in_prov.at = Len(local.file_bytes)
    /\ Len(local.in_prov.of.plain) = MaxLen
    /\ outcome = "aead_error"

\* a flipped bit of the first ciphertext byte
C3_WitnessBody ==
    /\ DecFinished /\ InputCiphertextFlipped
    /\ local.in_prov.of.password = password
    /\ local.in_prov.at = HeaderLength + 1
    /\ Len(local.in_prov.of.plain) = MaxLen
    /\ outcome = "aead_error"

\* ------------------------------------------------------------ C4
\* the two passwords give different keys under this salt
KeysDiffer(w1, w2, salt) ==
    pbkdf2(w1, salt, PBKDF2_ITERATIONS, KEY_LENGTH)
        # pbkdf2(w2, salt, PBKDF2_ITERATIONS, KEY_LENGTH)

\* C4: decrypt_file with W2 on a file encrypt_file wrote with W1 # W2,
\* the two passwords giving different keys under the stored salt, ends with
\* the AEAD error, the outcome of a corrupted ciphertext, and writes nothing.
C4_WrongPasswordRejected ==
    (/\ DecFinished /\ InputSealed
     /\ local.in_prov.password # password
     /\ KeysDiffer(local.in_prov.password, password, local.in_prov.salt))
    => /\ outcome = "aead_error"
       /\ steps = <<"read", "kdf", "aead">>
       /\ "decrypted_data" \notin DOMAIN local

C4_Witness ==
    /\ DecFinished /\ InputSealed
    /\ local.in_prov.password # password
    /\ KeysDiffer(local.in_prov.password, password, local.in_prov.salt)
    /\ Len(local.in_prov.plain) = MaxLen
    /\ outcome = "aead_error"

\* ------------------------------------------------------------ C5
\* C5: the invocation itself changes the file system in one step only, the
\* write_file_bytes call that every earlier step has succeeded before, and
\* what a decrypt_file stores there is the complete authenticated plaintext;
\* an invocation that ends in an error leaves every file as it was.
C5_AllOrNothing ==
    [][(damaged' = damaged)
       => /\ (fs' # fs)
             => /\ pc \in {"enc_write", "dec_write"}
                /\ steps = <<"read", "kdf", "aead">>
                /\ outcome' = "ok"
                /\ \A f \in Paths \ {output_path} : fs'[f] = fs[f]
                /\ pc = "dec_write"
                      => /\ decrypt(local.key, local.metadata.nonce,
                                    local.encrypted_data).ok
                         /\ fs'[output_path].data
                               = decrypt(local.key, local.metadata.nonce,
                                         local.encrypted_data).val
          /\ (pc' = "done" /\ outcome' # "ok") => fs' = fs]_vars

\* a decrypt_file that failed authentication, its output path still holding
\* the file that was there before
C5_Witness ==
    /\ pc = "done"
    /\ cmd = "decrypt"
    /\ outcome = "aead_error"
    /\ fs[output_path].exists
    /\ fs[output_path].prov.kind = "plain"

\* ------------------------------------------------------------ C6
\* C6: the file encrypt_file writes is the nonce (offsets 0..11), the salt
\* (offsets 12..27) and the AEAD ciphertext, nothing else, 28 + |P| + 16
\* bytes in all; the stored nonce is the one the plaintext was encrypted
\* under and the stored salt the one the key was derived from.
C6_EnvelopeLayout ==
    (pc = "done" /\ cmd = "encrypt" /\ outcome = "ok")
    => LET f == fs[output_path].data
           p == local.plain_text_bytes
       IN  /\ Len(f) = 28 + Len(p) + 16
           /\ SubSeq(f, 1, 12) = local.nonce
           /\ SubSeq(f, 13, 28) = local.salt
           /\ SubSeq(f, 29, Len(f)) = local.encrypted_data
           /\ local.key = derive_key(password, SubSeq(f, 13, 28))
           /\ local.encrypted_data = encrypt(local.key, SubSeq(f, 1, 12), p).val

\* the 5-byte input "hello" gives a 49-byte file
C6_Witness ==
    /\ pc = "done" /\ cmd = "encrypt" /\ outcome = "ok"
    /\ local.plain_text_bytes = <<104, 101, 108, 108, 111>>
    /\ Len(fs[output_path].data) = 49
    /\ local.nonce # SubSeq(local.salt, 1, 12)

\* ------------------------------------------------------------ C7
\* an earlier encrypt_file of the same plaintext under the same password,
\* its output still stored at path f, seen from a second one about to write
EarlierSeal(f) ==
    /\ pc = "enc_write"
    /\ fs[f].exists
    /\ fs[f].prov.kind = "sealed"
    /\ fs[f].prov.plain = local.plain_text_bytes
    /\ fs[f].prov.password = password

DrawsDiffer(f) ==
    fs[f].prov.nonce # local.nonce \/ fs[f].prov.salt # local.salt

\* what decrypt_file's pipeline makes of envelope bytes under password pw
OpenBytes(bytes, pw) ==
    LET metadata == deserialize(SplitHead(bytes, HeaderLength)).val
    IN  decrypt(derive_key(pw, metadata.salt), metadata.nonce,
                SplitTail(bytes, HeaderLength))

\* C7 as stated: two encrypt_file runs on the same P and W always produce
\* different envelope bytes.
C7_AlwaysDifferent ==
    \A f \in Paths :
        EarlierSeal(f) => fs[f].data # local.full_encrypted_data

\* C7, amended: the two envelopes differ exactly when the two runs drew a
\* different nonce or a different salt (each drawn by its own call, so one
\* can differ while the other repeats), and both open to P under W.
C7_DifferentWhenDrawsDiffer ==
    \A f \in Paths :
        EarlierSeal(f)
        => /\ DrawsDiffer(f) <=> (fs[f].data # local.full_encrypted_data)
           /\ OpenBytes(fs[f].data, password) = Ok(local.plain_text_bytes)
           /\ OpenBytes(local.full_encrypted_data, password)
                 = Ok(local.plain_text_bytes)

\* the second run repeated the nonce and drew another salt
C7_Witness ==
    \E f \in Paths :
        /\ EarlierSeal(f)
        /\ fs[f].prov.nonce = local.nonce
        /\ fs[f].prov.salt # local.salt
        /\ fs[f].data # local.full_encrypted_data
        /\ Len(local.plain_text_bytes) = MaxLen

\* ------------------------------------------------------------ C8
\* C8: a serialized header has the same length whatever the nonce and salt
\* are, so the length decrypt_file measures on a header with freshly drawn
\* fields is the length of the header encrypt_file prepended, and split_at
\* cuts exactly between the stored header and the stored ciphertext.
C8_HeaderLengthAgreement ==
    /\ (cmd = "encrypt" /\ "metadata_bytes" \in DOMAIN local)
       => \A n \in RngSeeds, z \in RngSeeds :
             MetadataLength(n, z) = Len(local.metadata_bytes)
    /\ (InputSealed /\ "metadata_length" \in DOMAIN local)
       => LET prov == local.in_prov
              header == serialize(EncMetadata(prov.nonce, prov.salt))
          IN  /\ local.metadata_length = Len(header)
              /\ local.metadata_bytes = header
              /\ local.encrypted_data
                    = encrypt(derive_key(prov.password, prov.salt), prov.nonce,
                              prov.plain).val

\* decrypt_file measured the header with a salt other than the stored one
C8_Witness ==
    /\ InputSealed
    /\ pc = "dec_key"
    /\ local.drawn_salt # local.in_prov.salt
    /\ local.metadata_length = 28
    /\ Len(local.encrypted_data) = MaxLen + TAG_LENGTH

\* ------------------------------------------------------------ C9
\* C9: an invocation starts its steps in the order read, key derivation,
\* AEAD, write, each at most once; a successful one has started all four;
\* one that failed stopped at the failing step; and when write_file_bytes
\* is reached the whole input file is already in memory.
C9_StepOrder ==
    /\ IsPrefix(steps, Pipeline)
    /\ (pc = "done" /\ outcome = "ok") => steps = Pipeline
    /\ (pc = "done" /\ outcome = "io_error") => steps \in {<<"read">>, Pipeline}
    /\ (pc = "done" /\ outcome \in {"panic", "decode_error"}) => steps = <<"read">>
    /\ (pc = "done" /\ outcome = "aead_error") => steps = <<"read", "kdf", "aead">>
    /\ pc = "enc_write" => local.plain_text_bytes = fs[input_path].data
    /\ pc = "dec_write" => local.file_bytes = fs[input_path].data

\* an encrypt_file that overwrote its own input, successfully
C9_Witness ==
    /\ pc = "done"
    /\ cmd = "encrypt"
    /\ outcome = "ok"
    /\ input_path = output_path
    /\ steps = Pipeline
    /\ Len(local.plain_text_bytes) = MaxLen

\* ------------------------------------------------------------ C10
\* the outcome of decrypt_file as a function of the input bytes and the
\* password alone
OpenOutcome(bytes, pw) ==
    IF Len(bytes) < HeaderLength THEN "panic"
    ELSE IF OpenBytes(bytes, pw).ok THEN "ok" ELSE "aead_error"

\* C10: whatever nonce and salt decrypt_file draws to measure the header,
\* the split point is the same, the key is the one derived from the salt
\* stored in the input (with every other draw too), and the way the
\* invocation ends and the plaintext it writes are fixed by the input bytes
\* and the password (an output file that cannot be created aside).
C10_OpenDeterministic ==
    DecHasInput
    => /\ "metadata_length" \in DOMAIN local
          => \A n \in RngSeeds, z \in RngSeeds :
                MetadataLength(n, z) = local.metadata_length
       /\ "key" \in DOMAIN local
          => /\ local.key = derive_key(password, SubSeq(local.file_bytes, 13, 28))
             /\ \A z \in RngSeeds :
                   local.key = derive_key(password,
                                          DecKeySalt(local.metadata, generate_salt(z)))
       /\ "decrypted_data" \in DOMAIN local
          => local.decrypted_data = OpenBytes(local.file_bytes, password).val
       /\ pc = "done"
          => /\ \/ outcome = OpenOutcome(local.file_bytes, password)
                \/ /\ outcome = "io_error"
                   /\ steps = Pipeline
                   /\ OpenOutcome(local.file_bytes, password) = "ok"
             /\ outcome = "ok"
                => fs[output_path].data = OpenBytes(local.file_bytes, password).val

\* a successful decrypt_file that had drawn a salt other than the stored one
C10_Witness ==
    /\ DecFinished
    /\ outcome = "ok"
    /\ local.drawn_salt # local.metadata.salt
    /\ Len(local.decrypted_data) = MaxLen

====
